---- MODULE Spec2Model ----
(***************************************************************************)
(* target-nats-kv: the Singer target that replicates schema-validated      *)
(* records into a NATS JetStream key/value bucket                          *)
(* (src/meltano/load/target-nats-kv/src/target_nats_kv/__init__.py).       *)
(*                                                                         *)
(* One instance of the program is one run of main(): persist_messages      *)
(* reads the input line by line, keeps the per-stream registry and the     *)
(* held state, and talks to the bucket with get/create/update/put.  The    *)
(* bucket is shared by every running instance.                             *)
(***************************************************************************)
EXTENDS Integers, Sequences, FiniteSets, TLC

\* ------------------------------------------------------------------ bounds

\* Lines one instance reads before its input ends (one running instance).
MaxMsgs == 4
\* Lines each instance reads when two instances run against the same bucket.
MaxConcMsgs == 3
\* Distinct readings of the wall clock (datetime.now) a run can observe.
MaxStamp == 2

\* ------------------------------------------------------------------ values

\* A Python None where the code tests "is None".
None == "None"

\* JSON values of record fields: a string, a number, or no such field.
\* s is what Python's str() makes of the value.
Str(s) == [t |-> "str", s |-> s]
Num(s) == [t |-> "num", s |-> s]
Absent == [t |-> "absent", s |-> <<>>]

\* Characters that occur in the modelled inputs, with their code points:
\* Python compares strings code point by code point.
CodePoint(c) ==
    CASE c = " " -> 32
      [] c = "$" -> 36
      [] c = "*" -> 42
      [] c = "-" -> 45
      [] c = "." -> 46
      [] c = "0" -> 48
      [] c = "1" -> 49
      [] c = "2" -> 50
      [] c = "3" -> 51
      [] c = "4" -> 52
      [] c = "5" -> 53
      [] c = "9" -> 57
      [] c = ">" -> 62
      [] c = "T" -> 84
      [] c = "p" -> 112
      [] c = "s" -> 115
      [] c = "t" -> 116
      [] OTHER -> 0

\* a > b on Python strings (sequences of characters).
StrGreater(a, b) ==
    \E i \in 1..Len(a) :
        /\ \A j \in 1..(i - 1) : j <= Len(b) /\ a[j] = b[j]
        /\ \/ i > Len(b)
           \/ i <= Len(b) /\ CodePoint(a[i]) > CodePoint(b[i])

\* The fields a record of the modelled inputs can carry, in the order
\* they are written to the store.
FieldOrder == <<"id", "updated_at", "amount", "_sdc_deleted_at",
                "_sdc_extracted_at", "_sdc_received_at">>
Fields == {FieldOrder[i] : i \in 1..Len(FieldOrder)}

\* o.record: a dict, modelled as a function that is Absent off its keys.
Has(record, f) == record[f].t # "absent"

RECURSIVE DumpsFrom(_, _)
DumpsFrom(record, i) ==
    IF i > Len(FieldOrder) THEN <<>>
    ELSE (IF Has(record, FieldOrder[i])
          THEN << <<FieldOrder[i], record[FieldOrder[i]]>> >>
          ELSE <<>>) \o DumpsFrom(record, i + 1)

\* json.dumps(o.record).encode("utf-8"): the members of the JSON object.
\* b"" is the empty sequence; no record serializes to it ("{}" is 2 bytes).
JsonDumps(record) == <<[braces |-> TRUE]>> \o DumpsFrom(record, 1)
EmptyBytes == <<>>

\* json.loads(current_value): the dict of the members.
JsonLoads(text) ==
    [f \in Fields |->
        IF \E i \in 2..Len(text) : text[i][1] = f
        THEN text[CHOOSE i \in 2..Len(text) : text[i][1] = f][2]
        ELSE Absent]

\* Mutation of ContainsDeletedAt: the test for the deleted target is missing.
ContainsDeletedAt_Never(text) == FALSE

\* "_sdc_deleted_at" in current_value: a test on the serialized text.  In
\* the modelled inputs the text occurs only as the name of that field.
ContainsDeletedAt(text) ==
    \E i \in 2..Len(text) : text[i][1] = "_sdc_deleted_at"

\* datetime.now(tz=UTC).isoformat() at clock reading n.
Digit == <<"1", "2", "3", "4", "5">>
IsoFormat(n) == Str(<<"T", Digit[n]>>)
Stamps == 1..MaxStamp

\* ---------------------------------------------------------------- messages

\* Stream names and the key prefix of the configuration, as strings.
StreamS == <<"s">>
StreamST == <<"s", ".", "t">>
Streams == {StreamS, StreamST}
KeyPrefixes == {<<"p", "-">>}

\* A JSON-Schema document, as far as the modelled inputs use the language:
\* the required fields and the type asked of the field amount.
SchemaAny == [required |-> {}, amount |-> "any"]
SchemaAmount == [required |-> {"amount"}, amount |-> "number"]

\* bookmark_properties and key_properties of a SCHEMA line: a list, or for
\* bookmark_properties also None when the line has no such member.
NoList == [some |-> FALSE, list |-> <<>>]
List(l) == [some |-> TRUE, list |-> l]

NoRecord == [f \in Fields |-> Absent]

\* What singer.parse_message returns for one input line (type NONE for an
\* object of unknown type, for which it returns None; type GARBAGE for a
\* line that is not JSON, for which it raises).
Message(type, stream, record, time_extracted, schema, keys, bookmarks, value) ==
    [type |-> type, stream |-> stream, record |-> record,
     time_extracted |-> time_extracted, schema |-> schema,
     key_properties |-> keys, bookmark_properties |-> bookmarks,
     value |-> value]

NoMsg == Message("IDLE", <<>>, NoRecord, None, SchemaAny, <<>>, NoList, None)

RecordMsg(stream, record, time_extracted) ==
    Message("RECORD", stream, record, time_extracted, SchemaAny, <<>>, NoList, None)
SchemaMsg(stream, schema, keys, bookmarks) ==
    Message("SCHEMA", stream, NoRecord, None, schema, keys, bookmarks, None)
StateMsg(value) ==
    Message("STATE", <<>>, NoRecord, None, SchemaAny, <<>>, NoList, value)
ActivateVersionMsg(stream) ==
    Message("ACTIVATE_VERSION", stream, NoRecord, None, SchemaAny, <<>>, NoList, None)
UnknownMsg == Message("NONE", <<>>, NoRecord, None, SchemaAny, <<>>, NoList, None)
GarbageLine == Message("GARBAGE", <<>>, NoRecord, None, SchemaAny, <<>>, NoList, None)

\* Field values of the modelled records.
Id1 == Str(<<"1">>)
IdEmpty == Str(<<>>)
IdDollar == Str(<<"$", "1">>)
IdDotted == Str(<<"t", ".", "1">>)
F2019 == Str(<<"2", "0", "1", "9">>)
F2020 == Str(<<"2", "0", "2", "0">>)
Amount5 == Num(<<"5">>)
AmountText == Str(<<"5">>)
Deleted == Str(<<"T", "9">>)
Given == Str(<<"T", "0">>)

Rec(id, updated_at, amount, deleted, received) ==
    [f \in Fields |->
        CASE f = "id" -> id
          [] f = "updated_at" -> updated_at
          [] f = "amount" -> amount
          [] f = "_sdc_deleted_at" -> deleted
          [] f = "_sdc_received_at" -> received
          [] OTHER -> Absent]

\* The RECORD lines of the inputs.
RecordMessages ==
    {RecordMsg(StreamS, Rec(Id1, u, Amount5, Absent, Absent), None) :
        u \in {Absent, F2019, F2020}}
    \cup {RecordMsg(StreamS, Rec(Id1, F2019, Amount5, Deleted, Absent), None),
          RecordMsg(StreamS, Rec(Id1, Absent, Amount5, Absent, Given), "T3"),
          RecordMsg(StreamS, Rec(Id1, F2020, AmountText, Absent, Absent), None)}
    \cup {RecordMsg(StreamS, Rec(i, F2020, Amount5, Absent, Absent), None) :
        i \in {Absent, IdEmpty, IdDollar, IdDotted}}
    \cup {RecordMsg(StreamST, Rec(Id1, F2019, Amount5, Absent, Absent), None)}

\* The SCHEMA lines of the inputs.
SchemaMessages ==
    {SchemaMsg(StreamS, SchemaAmount, <<"id">>, List(<<"updated_at">>)),
     SchemaMsg(StreamS, SchemaAny, <<"id">>, NoList),
     SchemaMsg(StreamS, SchemaAny, <<"id">>, List(<<>>)),
     SchemaMsg(StreamS, SchemaAny, <<>>, List(<<"updated_at">>)),
     SchemaMsg(StreamS, SchemaAny, <<"id", "updated_at">>, List(<<"updated_at">>)),
     SchemaMsg(StreamST, SchemaAny, <<"id">>, List(<<"updated_at">>))}

\* The payloads of STATE lines: two documents and JSON null.
StateMessages == {StateMsg("x1"), StateMsg("y2"), StateMsg(None)}

AllMessages ==
    RecordMessages \cup SchemaMessages \cup StateMessages
    \cup {ActivateVersionMsg(StreamS), UnknownMsg, GarbageLine}

\* The input of the worked example: a schema with key id and bookmark
\* updated_at, the 2020 record, the 2019 record of the same id, a state.
ExampleInput ==
    <<SchemaMsg(StreamS, SchemaAmount, <<"id">>, List(<<"updated_at">>)),
      RecordMsg(StreamS, Rec(Id1, F2020, Amount5, Absent, Absent), None),
      RecordMsg(StreamS, Rec(Id1, F2019, Amount5, Absent, Absent), None),
      StateMsg("x1")>>

\* The lines two concurrent instances draw from.
ConcMessages ==
    {SchemaMsg(StreamS, SchemaAmount, <<"id">>, List(<<"updated_at">>)),
     SchemaMsg(StreamS, SchemaAny, <<"id">>, NoList),
     StateMsg("x1"),
     GarbageLine, UnknownMsg, ActivateVersionMsg(StreamS)}
    \cup {RecordMsg(StreamS, Rec(Id1, u, Amount5, Absent, Given), None) :
        u \in {Absent, F2019, F2020}}
    \cup {RecordMsg(StreamS, Rec(Id1, F2019, Amount5, Deleted, Given), None)}

\* ------------------------------------------------------------------- state

\* The running instances of the program, all on one bucket.
Writers == {1, 2}

VARIABLES
    store,           \* the bucket: key -> [value, revision], on the keys it holds
    sequence,        \* the bucket's last assigned revision
    key_prefix,      \* config["key_prefix"]
    pc,              \* per instance: where its run stands
    nread,           \* per instance: the lines read so far
    o,               \* per instance: the parsed message being handled
    op,              \* per instance: the store call in flight, and the record's outcome
    state,           \* per instance: persist_messages' state
    schemas,         \* per instance: stream -> schema
    key_properties,  \* per instance: stream -> key property list
    bookmarks,       \* per instance: stream -> bookmark property list
    validators,      \* per instance: stream -> validator
    stdout,          \* per instance: the lines written to standard output
    raised,          \* per instance: the exception that ended the run, or None
    prev,            \* per instance: history of the record handled just before
    checkpoint,      \* per instance: history of the STATE lines
    example          \* per instance: history of the input read

vars == <<store, sequence, key_prefix, pc, nread, o, op, state, schemas,
          key_properties, bookmarks, validators, stdout, raised, prev,
          checkpoint, example>>

registry == <<schemas, key_properties, bookmarks, validators>>

\* No store call in flight.
NoOp == [key |-> <<>>, record |-> NoRecord, value |-> EmptyBytes, last |-> 0]
\* prev is kept for a record that wrote with create or put, and for the record
\* that directly followed such a write to the same key (earlier is then the
\* message of that write).  It is history: the program does not read it.
NoPrev == [msg |-> NoMsg, key |-> <<>>, call |-> "none", earlier |-> NoMsg]

\* checkpoint is the payload of the last STATE line handled, or None when
\* there was none or a record handled after it was written with create or put.
\* example counts the lines read while the input read so far is a prefix of
\* ExampleInput and the run started on an empty bucket; it is -1 otherwise.
\* Both are history: the program does not read them.

EmptyMap == <<>>

\* dict[k] = v
Put(map, k, v) == (k :> v) @@ map

\* ---------------------------------------------------------- pure functions

\* Mutation of Validate: the validator accepts every record.
Validate_Anything(schema, record) == TRUE

\* Draft4Validator(schema).validate(record): TRUE when no ValidationError.
Validate(schema, record) ==
    /\ \A f \in schema.required : Has(record, f)
    /\ schema.amount = "number" => record["amount"].t \in {"num", "absent"}
    /\ schema.amount = "string" => record["amount"].t \in {"str", "absent"}

\* Mutation of SchemaKnown: the test for the schema is missing.
SchemaKnown_Always(known, stream) == TRUE

\* stream in schemas
SchemaKnown(known, stream) == stream \in DOMAIN known

\* Mutation of HasOneKeyProperty: several key properties pass, the first is used.
HasOneKeyProperty_AtLeastOne(kps, stream) ==
    stream \in DOMAIN kps /\ Len(kps[stream]) >= 1

\* not (stream not in key_properties or len(key_properties[stream]) != 1)
HasOneKeyProperty(kps, stream) == stream \in DOMAIN kps /\ Len(kps[stream]) = 1

\* str(o.record[key_properties[stream][0]])
PrimaryKeyValue(record, keyprop) == record[keyprop].s

\* The characters the loop at "for char in primary_key_value" warns about.
InvalidChars == {" ", ".", "*", ">", "NUL"}
InvalidCharWarnings(pkv) == {i \in 1..Len(pkv) : pkv[i] \in InvalidChars}

\* The tests on the key value that end the handling of the record: the
\* empty value and the leading "$".  The continue of the character loop
\* continues that loop, not the message loop, so the loop ends no record.
KeyValueSkipped(pkv) ==
    \/ Len(pkv) = 0
    \/ pkv[1] = "$"

\* Mutation of Key: the stream name is left out of the key.
Key_NoStream(prefix, stream, pkv) == prefix \o <<".">> \o pkv

\* f"{key_prefix}{stream}.{primary_key_value}"
Key(prefix, stream, pkv) == prefix \o stream \o <<".">> \o pkv

\* time_extracted.isoformat()
ExtractedIso(te) == Str(<<"T", "3">>)

\* Mutation of Enrich: the receipt timestamp is set also when the record has one.
Enrich_AlwaysStamps(record, time_extracted, now) ==
    [record EXCEPT !["_sdc_received_at"] = IsoFormat(now),
                   !["_sdc_extracted_at"] =
                        IF time_extracted # None /\ ~Has(record, "_sdc_extracted_at")
                        THEN ExtractedIso(time_extracted) ELSE @]

\* The two provenance fields set before the record is written.
Enrich(record, time_extracted, now) ==
    LET r1 == IF time_extracted # None /\ ~Has(record, "_sdc_extracted_at")
              THEN [record EXCEPT !["_sdc_extracted_at"] = ExtractedIso(time_extracted)]
              ELSE record
    IN  IF ~Has(r1, "_sdc_received_at")
        THEN [r1 EXCEPT !["_sdc_received_at"] = IsoFormat(now)]
        ELSE r1

\* bookmark_attr: the first bookmark property of the stream, or None.
BookmarkAttr(bms, stream) ==
    IF stream \in DOMAIN bms /\ bms[stream].some /\ Len(bms[stream].list) > 0
    THEN bms[stream].list[1]
    ELSE None

\* Mutation of BookmarkOf: a record without the field counts as the newest.
BookmarkOf_MissingIsNewest(record, attr) ==
    IF Has(record, attr) THEN record[attr].s ELSE <<"9", "9", "9", "9">>

\* bookmark_source / bookmark_target: the field's value, or "" without it.
\* (str("") is ""; Absent.s is the empty string.)
BookmarkOf(record, attr) == record[attr].s

\* Mutations of IsNewer: the record that arrives last always wins; a record
\* of equal freshness wins.
IsNewer_ArrivalOrder(source, target) == TRUE
IsNewer_NotOlder(source, target) == ~StrGreater(target, source)

\* str(bookmark_source) > str(bookmark_target)
IsNewer(source, target) == StrGreater(source, target)

\* Mutation of EmitState: the test for None is missing.
EmitState_Always(st) == <<st>>

\* emit_state: one line for a state that is not None.
EmitState(st) == IF st = None THEN <<>> ELSE <<st>>

\* ------------------------------------------------------------------ bucket

\* The bucket's operations, as the key/value interface defines them.
KvHas(kv, key) == key \in DOMAIN kv
\* create succeeds on a key the bucket does not hold.
KvCreateOk(kv, key) == ~KvHas(kv, key)
\* update succeeds when the entry's revision is the expected one.
KvUpdateOk(kv, key, last) == KvHas(kv, key) /\ kv[key].revision = last
\* Every successful write stores the value under the next revision.
KvWrite(kv, seq, key, value) == Put(kv, key, [value |-> value, revision |-> seq + 1])

\* The buckets a run can start on: an empty one, and one in which another
\* program has left an entry with an empty value under the key of record 1.
InitStores(prefix) ==
    {EmptyMap,
     Put(EmptyMap, Key(prefix, StreamS, Id1.s), [value |-> EmptyBytes, revision |-> 1])}

\* ------------------------------------------------------------------ actions

Single == pc[2] = "off"
InputMessages == IF Single THEN AllMessages ELSE ConcMessages
InputBound == IF Single THEN MaxMsgs ELSE MaxConcMsgs

\* Mutation of NextMessage: the next line is read while a put is in flight.
NextMessage_Pipelined(w) ==
    /\ pc[w] \in {"read", "put"}
    /\ nread[w] < InputBound
    /\ \E m \in InputMessages :
        /\ o' = [o EXCEPT ![w] = m]
        /\ pc' = [pc EXCEPT ![w] = "handle"]
        /\ nread' = [nread EXCEPT ![w] = @ + 1]
        /\ example' = [example EXCEPT ![w] =
                IF /\ @ = nread[w]
                   /\ @ < Len(ExampleInput)
                   /\ m = ExampleInput[@ + 1]
                THEN @ + 1 ELSE -1]
    /\ UNCHANGED <<store, sequence, key_prefix, op, state, registry, stdout,
                   raised, prev, checkpoint>>

\* The message loop takes the next line: for message in next_singer_message().
NextMessage(w) ==
    /\ pc[w] = "read"
    /\ nread[w] < InputBound
    /\ \E m \in InputMessages :
        /\ o' = [o EXCEPT ![w] = m]
        /\ pc' = [pc EXCEPT ![w] = "handle"]
        /\ nread' = [nread EXCEPT ![w] = @ + 1]
        /\ example' = [example EXCEPT ![w] =
                IF /\ @ = nread[w]
                   /\ @ < Len(ExampleInput)
                   /\ m = ExampleInput[@ + 1]
                THEN @ + 1 ELSE -1]
    /\ UNCHANGED <<store, sequence, key_prefix, op, state, registry, stdout,
                   raised, prev, checkpoint>>

\* The handling of the message ends and the loop goes to the next line.
\* call is what the record did to the bucket; held is state afterwards.
Finish(w, call, held) ==
    /\ pc' = [pc EXCEPT ![w] = "read"]
    /\ LET earlier == IF /\ prev[w].call \in {"create", "put"}
                          /\ prev[w].key = op[w].key
                       THEN prev[w].msg ELSE NoMsg
       IN  prev' = [prev EXCEPT ![w] =
                IF call \in {"create", "put"} \/ earlier # NoMsg
                THEN [msg |-> o[w], key |-> op[w].key, call |-> call,
                      earlier |-> earlier]
                ELSE NoPrev]
    /\ o' = [o EXCEPT ![w] = NoMsg]
    /\ op' = [op EXCEPT ![w] = NoOp]
    /\ state' = [state EXCEPT ![w] = held]
    /\ checkpoint' = [checkpoint EXCEPT ![w] =
            IF o[w].type = "STATE" THEN o[w].value
            ELSE IF call \in {"create", "put"} THEN None
            ELSE @]
    /\ UNCHANGED <<nread, registry, stdout, raised, example>>

\* Mutation of Continue: state = None is run for a skipped record too.
Continue_Clears(w) == Finish(w, "skip", None)

\* continue: the rest of the loop body, state = None included, is not run.
Continue(w) == Finish(w, "skip", state[w])

\* The locals of persist_messages go with its frame when it returns or raises.
Return(w) ==
    /\ nread' = [nread EXCEPT ![w] = 0]
    /\ o' = [o EXCEPT ![w] = NoMsg]
    /\ op' = [op EXCEPT ![w] = NoOp]
    /\ prev' = [prev EXCEPT ![w] = NoPrev]
    /\ state' = [state EXCEPT ![w] = None]
    /\ schemas' = [schemas EXCEPT ![w] = EmptyMap]
    /\ key_properties' = [key_properties EXCEPT ![w] = EmptyMap]
    /\ bookmarks' = [bookmarks EXCEPT ![w] = EmptyMap]
    /\ validators' = [validators EXCEPT ![w] = EmptyMap]

\* Mutation of Raise: the held state is emitted on the way out.
Raise_EmitsState(w, exception) ==
    /\ pc' = [pc EXCEPT ![w] = "aborted"]
    /\ raised' = [raised EXCEPT ![w] = exception]
    /\ Return(w)
    /\ stdout' = [stdout EXCEPT ![w] = @ \o EmitState(state[w])]
    /\ UNCHANGED <<checkpoint, example>>

\* An exception leaves persist_messages, run and main: nothing is emitted.
Raise(w, exception) ==
    /\ pc' = [pc EXCEPT ![w] = "aborted"]
    /\ raised' = [raised EXCEPT ![w] = exception]
    /\ Return(w)
    /\ UNCHANGED <<stdout, checkpoint, example>>

\* singer.parse_message raises on a line that is not JSON.
ParseError(w) ==
    /\ pc[w] = "handle"
    /\ o[w].type = "GARBAGE"
    /\ Raise(w, "JSONDecodeError")
    /\ UNCHANGED <<store, sequence, key_prefix>>

\* A RECORD line, up to the first store call (or the end of its handling).
HandleRecord(w) ==
    /\ pc[w] = "handle"
    /\ o[w].type = "RECORD"
    /\ LET stream == o[w].stream
           record == o[w].record
       IN  IF ~SchemaKnown(schemas[w], stream)
           THEN Raise(w, "RecordBeforeSchema")
           ELSE IF ~HasOneKeyProperty(key_properties[w], stream)
           THEN Continue(w)
           ELSE IF ~Has(record, key_properties[w][stream][1])
           THEN Continue(w)
           ELSE IF KeyValueSkipped(PrimaryKeyValue(record, key_properties[w][stream][1]))
           THEN Continue(w)
           ELSE IF ~Validate(validators[w][stream], record)
           THEN Continue(w)
           ELSE \E now \in Stamps :
                LET enriched == Enrich(record, o[w].time_extracted, now)
                    key == Key(key_prefix, stream,
                               PrimaryKeyValue(record, key_properties[w][stream][1]))
                IN  /\ op' = [op EXCEPT ![w] =
                            [NoOp EXCEPT !.key = key, !.record = enriched,
                                         !.value = JsonDumps(enriched)]]
                    /\ pc' = [pc EXCEPT ![w] =
                            IF BookmarkAttr(bookmarks[w], stream) # None
                            THEN "get" ELSE "put"]
                    /\ UNCHANGED <<nread, o, prev, state, registry, stdout,
                                   raised, checkpoint, example>>
    /\ UNCHANGED <<store, sequence, key_prefix>>

\* A STATE line: state = o.value.
HandleState(w) ==
    /\ pc[w] = "handle"
    /\ o[w].type = "STATE"
    /\ Finish(w, "none", o[w].value)
    /\ UNCHANGED <<store, sequence, key_prefix>>

\* Mutation of HandleSchema: a line without bookmark properties keeps the
\* ones the stream had.
HandleSchema_Merges(w) ==
    /\ pc[w] = "handle"
    /\ o[w].type = "SCHEMA"
    /\ schemas' = [schemas EXCEPT ![w] = Put(@, o[w].stream, o[w].schema)]
    /\ bookmarks' = [bookmarks EXCEPT ![w] =
            IF o[w].stream \in DOMAIN @ /\ ~o[w].bookmark_properties.some
            THEN @ ELSE Put(@, o[w].stream, o[w].bookmark_properties)]
    /\ validators' = [validators EXCEPT ![w] = Put(@, o[w].stream, o[w].schema)]
    /\ key_properties' = [key_properties EXCEPT ![w] = Put(@, o[w].stream, o[w].key_properties)]
    /\ pc' = [pc EXCEPT ![w] = "read"]
    /\ prev' = [prev EXCEPT ![w] = NoPrev]
    /\ o' = [o EXCEPT ![w] = NoMsg]
    /\ UNCHANGED <<store, sequence, key_prefix, nread, op, state, stdout,
                   raised, checkpoint, example>>

\* A SCHEMA line: the four dicts get the stream's entry of the message.
HandleSchema(w) ==
    /\ pc[w] = "handle"
    /\ o[w].type = "SCHEMA"
    /\ schemas' = [schemas EXCEPT ![w] = Put(@, o[w].stream, o[w].schema)]
    /\ bookmarks' = [bookmarks EXCEPT ![w] = Put(@, o[w].stream, o[w].bookmark_properties)]
    /\ validators' = [validators EXCEPT ![w] = Put(@, o[w].stream, o[w].schema)]
    /\ key_properties' = [key_properties EXCEPT ![w] = Put(@, o[w].stream, o[w].key_properties)]
    /\ pc' = [pc EXCEPT ![w] = "read"]
    /\ prev' = [prev EXCEPT ![w] = NoPrev]
    /\ o' = [o EXCEPT ![w] = NoMsg]
    /\ UNCHANGED <<store, sequence, key_prefix, nread, op, state, stdout,
                   raised, checkpoint, example>>

\* Mutation of HandleActivateVersion: the unsupported line ends the run.
HandleActivateVersion_Raises(w) ==
    /\ pc[w] = "handle"
    /\ o[w].type = "ACTIVATE_VERSION"
    /\ Raise(w, "Unsupported")
    /\ UNCHANGED <<store, sequence, key_prefix>>

\* An ACTIVATE_VERSION line: a warning.
HandleActivateVersion(w) ==
    /\ pc[w] = "handle"
    /\ o[w].type = "ACTIVATE_VERSION"
    /\ Finish(w, "none", state[w])
    /\ UNCHANGED <<store, sequence, key_prefix>>

\* Anything else parse_message returns: a warning.
HandleUnknown(w) ==
    /\ pc[w] = "handle"
    /\ o[w].type = "NONE"
    /\ Finish(w, "none", state[w])
    /\ UNCHANGED <<store, sequence, key_prefix>>

\* The bucket answers kv_client.get(key); the record is compared and either
\* skipped or sent on to create or update.
StoreGet(w) ==
    /\ pc[w] = "get"
    /\ LET key == op[w].key
           attr == BookmarkAttr(bookmarks[w], o[w].stream)
       IN  IF ~KvHas(store, key)
           THEN /\ pc' = [pc EXCEPT ![w] = "create"]
                /\ UNCHANGED <<nread, o, op, prev, state, registry, stdout,
                               raised, checkpoint, example>>
           ELSE IF store[key].value = EmptyBytes
           THEN Continue(w)
           ELSE IF ContainsDeletedAt(store[key].value)
           THEN Continue(w)
           ELSE IF IsNewer(BookmarkOf(op[w].record, attr),
                           BookmarkOf(JsonLoads(store[key].value), attr))
           THEN /\ pc' = [pc EXCEPT ![w] = "update"]
                /\ op' = [op EXCEPT ![w].last = store[key].revision]
                /\ UNCHANGED <<nread, o, prev, state, registry, stdout,
                               raised, checkpoint, example>>
           ELSE Continue(w)
    /\ UNCHANGED <<store, sequence, key_prefix>>

\* The bucket answers kv_client.create(key, value); then state = None.
StoreCreate(w) ==
    /\ pc[w] = "create"
    /\ IF KvCreateOk(store, op[w].key)
       THEN /\ store' = KvWrite(store, sequence, op[w].key, op[w].value)
            /\ sequence' = sequence + 1
            /\ Finish(w, "create", None)
       ELSE /\ Raise(w, "KeyWrongLastSequenceError")
            /\ UNCHANGED <<store, sequence>>
    /\ UNCHANGED key_prefix

\* Mutation of StoreUpdate: a stale update is retried from the get.
StoreUpdate_Retries(w) ==
    /\ pc[w] = "update"
    /\ IF KvUpdateOk(store, op[w].key, op[w].last)
       THEN /\ store' = KvWrite(store, sequence, op[w].key, op[w].value)
            /\ sequence' = sequence + 1
            /\ Finish(w, "update", state[w])
       ELSE /\ pc' = [pc EXCEPT ![w] = "get"]
            /\ UNCHANGED <<store, sequence, nread, o, op, prev, state, registry,
                           stdout, raised, checkpoint, example>>
    /\ UNCHANGED key_prefix

\* The bucket answers kv_client.update(key, value, last); then continue.
StoreUpdate(w) ==
    /\ pc[w] = "update"
    /\ IF KvUpdateOk(store, op[w].key, op[w].last)
       THEN /\ store' = KvWrite(store, sequence, op[w].key, op[w].value)
            /\ sequence' = sequence + 1
            /\ Finish(w, "update", state[w])
       ELSE /\ Raise(w, "KeyWrongLastSequenceError")
            /\ UNCHANGED <<store, sequence>>
    /\ UNCHANGED key_prefix

\* The bucket answers kv_client.put(key, value); then state = None.
StorePut(w) ==
    /\ pc[w] = "put"
    /\ store' = KvWrite(store, sequence, op[w].key, op[w].value)
    /\ sequence' = sequence + 1
    /\ Finish(w, "put", None)
    /\ UNCHANGED key_prefix

\* A store call fails for another reason (connection, permission).
StoreError(w) ==
    /\ pc[w] \in {"get", "create", "update", "put"}
    /\ Raise(w, "StoreError")
    /\ UNCHANGED <<store, sequence, key_prefix>>

\* Mutation of EndOfInput: the returned state is emitted twice.
EndOfInput_DrainsTwice(w) ==
    /\ pc[w] = "read"
    /\ stdout' = [stdout EXCEPT ![w] = @ \o EmitState(state[w]) \o EmitState(state[w])]
    /\ pc' = [pc EXCEPT ![w] = "done"]
    /\ Return(w)
    /\ UNCHANGED <<store, sequence, key_prefix, raised, checkpoint, example>>

\* The input ends: persist_messages returns state and main emits it.
EndOfInput(w) ==
    /\ pc[w] = "read"
    /\ stdout' = [stdout EXCEPT ![w] = @ \o EmitState(state[w])]
    /\ pc' = [pc EXCEPT ![w] = "done"]
    /\ Return(w)
    /\ UNCHANGED <<store, sequence, key_prefix, raised, checkpoint, example>>

\* ----------------------------------------------------------- specification

InitLocal ==
    /\ key_prefix \in KeyPrefixes
    /\ store \in InitStores(key_prefix)
    /\ sequence = IF store = EmptyMap THEN 0 ELSE 1
    /\ nread = [w \in Writers |-> 0]
    /\ o = [w \in Writers |-> NoMsg]
    /\ op = [w \in Writers |-> NoOp]
    /\ state = [w \in Writers |-> None]
    /\ schemas = [w \in Writers |-> EmptyMap]
    /\ key_properties = [w \in Writers |-> EmptyMap]
    /\ bookmarks = [w \in Writers |-> EmptyMap]
    /\ validators = [w \in Writers |-> EmptyMap]
    /\ stdout = [w \in Writers |-> <<>>]
    /\ raised = [w \in Writers |-> None]
    /\ prev = [w \in Writers |-> NoPrev]
    /\ checkpoint = [w \in Writers |-> None]
    /\ example = [w \in Writers |-> IF store = EmptyMap THEN 0 ELSE -1]

\* One instance runs.
Init ==
    /\ InitLocal
    /\ pc = [w \in Writers |-> IF w = 1 THEN "read" ELSE "off"]

\* Two instances run against the same bucket.
InitConc ==
    /\ InitLocal
    /\ store = EmptyMap
    /\ pc = [w \in Writers |-> "read"]

Next ==
    \E w \in Writers :
        \/ NextMessage(w)
        \/ ParseError(w)
        \/ HandleRecord(w)
        \/ HandleState(w)
        \/ HandleSchema(w)
        \/ HandleActivateVersion(w)
        \/ HandleUnknown(w)
        \/ StoreGet(w)
        \/ StoreCreate(w)
        \/ StoreUpdate(w)
        \/ StorePut(w)
        \/ StoreError(w)
        \/ EndOfInput(w)

Spec == Init /\ [][Next]_vars
SpecConc == InitConc /\ [][Next]_vars

\* One instance runs, its input is finite and every store call is answered:
\* the interpreter keeps running the loop, the iterator ends after at most
\* MaxMsgs lines, and an awaited call returns or raises.
SpecLive == Init /\ [][Next]_vars /\ WF_vars(Next)

\* ------------------------------------------------------------- properties

\* The handling of instance w's current message ends in this step and the
\* message loop goes on.
Handled(w) == pc[w] \notin {"read", "off", "done", "aborted"} /\ pc'[w] = "read"

\* The entry under key holds the record of message m: every field of the
\* message's record is stored with the message's value.
HoldsRecord(kv, key, m) ==
    /\ KvHas(kv, key)
    /\ kv[key].value # EmptyBytes
    /\ \A f \in Fields :
        Has(m.record, f) => JsonLoads(kv[key].value)[f] = m.record[f]

\* The record w is handling directly follows the record that created the
\* entry of the same key, in the same stream, and is compared by freshness.
SecondOfPair(w) ==
    /\ Handled(w)
    /\ pc[w] \in {"get", "update"}
    /\ prev[w].call = "create"
    /\ prev[w].key = op[w].key
    /\ prev[w].msg.stream = o[w].stream

FreshnessOf(w, m) == BookmarkOf(m.record, BookmarkAttr(bookmarks[w], m.stream))

\* C1 as stated: of two records of one key handled one after the other on a
\* key the bucket did not hold, the one with the greater freshness string is
\* the one the bucket holds afterwards, in either order of arrival.
C1_LastWriterWinsAnyRecords ==
    [][\A w \in Writers : SecondOfPair(w) =>
        /\ StrGreater(FreshnessOf(w, o[w]), FreshnessOf(w, prev[w].msg))
            => HoldsRecord(store', op[w].key, o[w])
        /\ StrGreater(FreshnessOf(w, prev[w].msg), FreshnessOf(w, o[w]))
            => HoldsRecord(store', op[w].key, prev[w].msg)]_vars

\* C1 as amended: the same, when the record with the smaller freshness string
\* does not carry the text _sdc_deleted_at; a stored record that carries it is
\* never replaced.
C1_LastWriterWins ==
    [][\A w \in Writers : SecondOfPair(w) =>
        /\ (StrGreater(FreshnessOf(w, o[w]), FreshnessOf(w, prev[w].msg))
            /\ ~ContainsDeletedAt(JsonDumps(prev[w].msg.record)))
            => HoldsRecord(store', op[w].key, o[w])
        /\ StrGreater(FreshnessOf(w, prev[w].msg), FreshnessOf(w, o[w]))
            => HoldsRecord(store', op[w].key, prev[w].msg)]_vars

\* The older record created the entry, the newer one followed and is held.
C1_Witness ==
    \E w \in Writers :
        /\ prev[w].call = "update"
        /\ prev[w].earlier.type = "RECORD"
        /\ StrGreater(FreshnessOf(w, prev[w].msg), FreshnessOf(w, prev[w].earlier))
        /\ ~Has(prev[w].earlier.record, "_sdc_deleted_at")
        /\ HoldsRecord(store, prev[w].key, prev[w].msg)

\* Instance w takes a step of its run.
Steps(w) == pc'[w] # pc[w]

\* C2: with two instances interleaved at their store calls, an entry the
\* bucket holds changes only by the put of an instance whose stream has no
\* freshness property, or by an update that expected the entry's current
\* revision and stores a record whose freshness string is strictly greater
\* than the one of the value it replaces; a stale update and a create on a
\* key the bucket holds change nothing.
C2_NoOlderOverwrite ==
    [][\A k \in DOMAIN store :
        /\ store'[k] # store[k] =>
            \E w \in Writers :
                /\ Steps(w)
                /\ op[w].key = k
                /\ store'[k].value = op[w].value
                /\ \/ pc[w] = "put" /\ BookmarkAttr(bookmarks[w], o[w].stream) = None
                   \/ /\ pc[w] = "update"
                      /\ store[k].revision = op[w].last
                      /\ StrGreater(FreshnessOf(w, [o[w] EXCEPT !.record = op[w].record]),
                                    FreshnessOf(w, [o[w] EXCEPT !.record = JsonLoads(store[k].value)]))
        /\ \A w \in Writers :
            (/\ Steps(w)
             /\ op[w].key = k
             /\ \/ pc[w] = "create"
                \/ pc[w] = "update" /\ store[k].revision # op[w].last)
            => store' = store]_vars

\* An update is in flight whose expected revision the other instance has
\* made stale, both instances comparing by the same freshness property.
C2_Witness ==
    \E w \in Writers :
        /\ pc[w] = "update"
        /\ KvHas(store, op[w].key)
        /\ store[op[w].key].revision > op[w].last
        /\ \A v \in Writers : BookmarkAttr(bookmarks[v], StreamS) = "updated_at"

\* A RECORD line of a stream for which no SCHEMA line was handled.
RecordBeforeSchema(w) ==
    /\ pc[w] = "handle"
    /\ o[w].type = "RECORD"
    /\ o[w].stream \notin DOMAIN schemas[w]

\* No store call is issued and the bucket is as it was.
NoStoreCall(w) ==
    /\ store' = store
    /\ sequence' = sequence
    /\ pc'[w] \notin {"get", "create", "update", "put"}

Keyed(w) ==
    /\ pc[w] = "handle"
    /\ o[w].type = "RECORD"
    /\ o[w].stream \in DOMAIN schemas[w]
    /\ o[w].stream \in DOMAIN key_properties[w]
    /\ Len(key_properties[w][o[w].stream]) = 1
    /\ Has(o[w].record, key_properties[w][o[w].stream][1])

KeyValueOf(w) == o[w].record[key_properties[w][o[w].stream][1]].s

\* The key values the bucket's key syntax excludes.
Malformed(pkv) ==
    \/ Len(pkv) = 0
    \/ pkv[1] = "$"
    \/ \E i \in 1..Len(pkv) : pkv[i] \in {" ", ".", "*", ">", "NUL"}

\* C4: a record whose key value is empty, starts with "$" or contains a
\* space, ".", "*", ">" or NUL is skipped: no store call is issued for it and
\* the bucket is unchanged.
C4_MalformedKeyRejected ==
    [][\A w \in Writers : (Keyed(w) /\ Malformed(KeyValueOf(w)) /\ Steps(w)) =>
        (pc'[w] = "read" /\ NoStoreCall(w))]_vars

\* A RECORD line whose stream does not have exactly one key property, or
\* whose record lacks it.
Keyless(w) ==
    /\ pc[w] = "handle"
    /\ o[w].type = "RECORD"
    /\ o[w].stream \in DOMAIN schemas[w]
    /\ \/ Len(key_properties[w][o[w].stream]) # 1
       \/ ~Has(o[w].record, key_properties[w][o[w].stream][1])

\* C5: a record that lacks the stream's key property, or whose stream has
\* none or several, is skipped: no store call, the bucket unchanged, and the
\* message loop goes on.
C5_KeylessSkipped ==
    [][\A w \in Writers : (Keyless(w) /\ Steps(w)) =>
        (pc'[w] = "read" /\ NoStoreCall(w) /\ op'[w] = NoOp /\ raised'[w] = None)]_vars

\* A record without its key property is about to be handled, with a state
\* held and a bucket that holds entries.
C5_Witness ==
    \E w \in Writers :
        /\ Keyless(w)
        /\ Len(key_properties[w][o[w].stream]) = 1
        /\ store # EmptyMap
        /\ state[w] # None

\* A RECORD line that does not conform to the schema registered for its
\* stream: a required property is missing, or amount has another type than
\* the schema asks.
Invalid(w) ==
    /\ pc[w] = "handle"
    /\ o[w].type = "RECORD"
    /\ o[w].stream \in DOMAIN validators[w]
    /\ LET schema == validators[w][o[w].stream]
           amount == o[w].record["amount"].t
       IN \/ \E f \in schema.required : o[w].record[f].t = "absent"
          \/ schema.amount = "number" /\ amount = "str"
          \/ schema.amount = "string" /\ amount = "num"

\* C6: the validator of a stream is the one of the last SCHEMA line handled
\* for it, and a record that fails it is skipped: no store call, the bucket
\* unchanged, and the message loop goes on.
C6_InvalidRecordNotWritten ==
    [][\A w \in Writers :
        /\ (Invalid(w) /\ Steps(w)) =>
            (pc'[w] = "read" /\ NoStoreCall(w) /\ raised'[w] = None)
        /\ (pc[w] = "handle" /\ o[w].type = "SCHEMA" /\ Steps(w)) =>
            validators'[w][o[w].stream] = o[w].schema
        /\ \A s \in DOMAIN validators[w] :
            (Steps(w) /\ ~(pc[w] = "handle" /\ o[w].type = "SCHEMA" /\ o[w].stream = s)
                /\ pc'[w] \notin {"done", "aborted"})
            => (s \in DOMAIN validators'[w] /\ validators'[w][s] = validators[w][s])]_vars

\* A keyed record with a text for amount is about to be handled under the
\* schema that asks a number of amount.
C6_Witness ==
    \E w \in Writers :
        /\ Invalid(w)
        /\ Keyed(w)
        /\ ~KeyValueSkipped(KeyValueOf(w))
        /\ validators[w][o[w].stream] = SchemaAmount
        /\ o[w].record["amount"].t = "str"

\* The record w is putting is the message it put just before.
SamePutAgain(w) ==
    /\ Handled(w)
    /\ pc[w] = "put"
    /\ prev[w].call = "put"
    /\ prev[w].msg = o[w]
    /\ prev[w].key = op[w].key

\* C7 as stated: without freshness property, handling the same record
\* message a second time leaves the stored value as the first left it.
C7_SecondPutSameValue ==
    [][\A w \in Writers : SamePutAgain(w) =>
        store'[op[w].key].value = store[op[w].key].value]_vars

\* C7 as amended: the second value equals the first in every field but
\* _sdc_received_at, and in that one too when the record carries it.
C7_SecondPutSameButReceipt ==
    [][\A w \in Writers : SamePutAgain(w) =>
        /\ \A f \in Fields \ {"_sdc_received_at"} :
            JsonLoads(store'[op[w].key].value)[f] = JsonLoads(store[op[w].key].value)[f]
        /\ Has(JsonLoads(store'[op[w].key].value), "_sdc_received_at")
        /\ Has(o[w].record, "_sdc_received_at") =>
            store'[op[w].key].value = store[op[w].key].value]_vars

\* The same record message, without receipt timestamp, was put twice in a row.
C7_Witness ==
    \E w \in Writers :
        /\ prev[w].call = "put"
        /\ prev[w].earlier = prev[w].msg
        /\ ~Has(prev[w].msg.record, "_sdc_received_at")
        /\ KvHas(store, prev[w].key)
        /\ store[prev[w].key].revision >= 2

\* C8: nothing is written to standard output before the run completes; on
\* completion the output is the one line of the held checkpoint, or no line
\* when none is held.  For the example input on an empty bucket the output is
\* the state x1 and the bucket holds the 2020 record and nothing else.
C8_EmitsHeldCheckpoint ==
    \A w \in Writers :
        /\ pc[w] # "done" => stdout[w] = <<>>
        /\ pc[w] = "done" =>
            stdout[w] = (IF checkpoint[w] = None THEN <<>> ELSE <<checkpoint[w]>>)
        /\ (pc[w] = "done" /\ example[w] = Len(ExampleInput)) =>
            /\ stdout[w] = <<"x1">>
            /\ DOMAIN store = {Key(key_prefix, StreamS, Id1.s)}
            /\ HoldsRecord(store, Key(key_prefix, StreamS, Id1.s), ExampleInput[2])

\* The example input was read to its end and the state x1 emitted.
C8_Witness ==
    \E w \in Writers :
        /\ pc[w] = "done"
        /\ example[w] = Len(ExampleInput)
        /\ stdout[w] = <<"x1">>

\* C9: after a record that was written to the bucket, by create, update or
\* put, no checkpoint is held.
C9_DurableWriteClears ==
    [][\A w \in Writers :
        (Handled(w) /\ pc[w] \in {"create", "update", "put"} /\ store' # store)
        => state'[w] = None]_vars

\* C10 as stated: after any RECORD line no checkpoint is held.
C10_EveryRecordClears ==
    [][\A w \in Writers : (Handled(w) /\ o[w].type = "RECORD") =>
        state'[w] = None]_vars

\* The record w is handling is rejected or skipped in this step: no single
\* key property, no key value, an empty or $-prefixed key value, a failed
\* validation, an empty stored value, a deleted target, or not newer.
Rejected(w) ==
    \/ Keyless(w)
    \/ Keyed(w) /\ (Len(KeyValueOf(w)) = 0 \/ KeyValueOf(w)[1] = "$")
    \/ Invalid(w)
    \/ /\ pc[w] = "get"
       /\ KvHas(store, op[w].key)
       /\ \/ store[op[w].key].value = EmptyBytes
          \/ ContainsDeletedAt(store[op[w].key].value)
          \/ ~StrGreater(FreshnessOf(w, [o[w] EXCEPT !.record = op[w].record]),
                         FreshnessOf(w, [o[w] EXCEPT !.record =
                                            JsonLoads(store[op[w].key].value)]))

\* C10 as amended: a rejected or skipped record leaves the held checkpoint
\* as it was, and the bucket too.
C10_SkippedRecordKeepsCheckpoint ==
    [][\A w \in Writers : (Rejected(w) /\ Steps(w) /\ pc'[w] # "aborted") =>
        /\ pc'[w] = "read"
        /\ state'[w] = state[w]
        /\ store' = store]_vars

\* With a checkpoint held, a record is about to be skipped because the
\* stored record is marked deleted.
C10_Witness ==
    \E w \in Writers :
        /\ pc[w] = "get"
        /\ state[w] # None
        /\ KvHas(store, op[w].key)
        /\ ContainsDeletedAt(store[op[w].key].value)
        /\ Rejected(w)

\* The step of w is a fatal error: the line is not JSON, or a store call
\* fails for a reason other than a missing key.
Fatal(w) ==
    \/ pc[w] = "handle" /\ o[w].type = "GARBAGE"
    \/ pc[w] \in {"get", "create", "update", "put"} /\ raised'[w] = "StoreError"

\* C11: a line that is not JSON, or a failing store call, ends the run at
\* that message: the bucket is unchanged by the step, the instance reads no
\* further line and issues no further store call, and nothing is written to
\* standard output, whether or not a state was held.
C11_FatalErrorAborts ==
    [][\A w \in Writers :
        /\ (Fatal(w) /\ Steps(w)) =>
            /\ pc'[w] = "aborted"
            /\ raised'[w] \in {"JSONDecodeError", "StoreError"}
            /\ store' = store
            /\ sequence' = sequence
            /\ stdout'[w] = <<>>
        /\ pc[w] = "aborted" =>
            /\ pc'[w] = "aborted"
            /\ nread'[w] = nread[w]
            /\ op'[w] = NoOp
            /\ stdout'[w] = <<>>
            /\ (\A v \in Writers \ {w} : ~Steps(v)) => store' = store]_vars

\* A store call failed while a state was held and the bucket held entries.
C11_Witness ==
    \E w \in Writers :
        /\ pc[w] = "aborted"
        /\ raised[w] = "StoreError"
        /\ checkpoint[w] # None
        /\ store # EmptyMap
        /\ stdout[w] = <<>>

\* The store call of w in flight meets a conflict: a create on a key the
\* bucket holds by now, or an update whose expected revision is stale.
Conflict(w) ==
    \/ pc[w] = "create" /\ KvHas(store, op[w].key)
    \/ /\ pc[w] = "update"
       /\ KvHas(store, op[w].key)
       /\ store[op[w].key].revision # op[w].last

\* C12: a create on a key another instance created after the get, or an
\* update on an entry another instance updated after the get, ends the run
\* with an exception: no second get and no second write follow for the
\* record, and the entry keeps the other instance's value.
C12_ConflictSurfaced ==
    [][\A w \in Writers :
        /\ (Conflict(w) /\ Steps(w)) =>
            /\ pc'[w] = "aborted"
            /\ raised'[w] \in {"KeyWrongLastSequenceError", "StoreError"}
            /\ store' = store
            /\ sequence' = sequence
            /\ stdout'[w] = <<>>
        /\ (pc[w] = "aborted" /\ raised[w] = "KeyWrongLastSequenceError") =>
            /\ pc'[w] = "aborted"
            /\ raised'[w] = raised[w]
            /\ op'[w] = NoOp]_vars

\* One instance was ended by a conflict on the entry the other one wrote and
\* has since finished its run.
C12_Witness ==
    \E w \in Writers : \E v \in Writers \ {w} :
        /\ pc[w] = "aborted"
        /\ raised[w] = "KeyWrongLastSequenceError"
        /\ pc[v] = "done"
        /\ KvHas(store, Key(key_prefix, StreamS, Id1.s))

\* The key the record of w's current message is to be stored under: the key
\* prefix, the stream name, a dot, the text of the key value.
TargetKey(w) == key_prefix \o o[w].stream \o <<".">> \o KeyValueOf(w)

\* C13: the handling of a record issues at most one mutating store call:
\* after the put, or after the get and the create or update it leads to, the
\* handling of the record is over; every call of the record is on the key
\* prefix + stream + "." + key value, the bucket changes under that key only
\* and by one revision, and a record that is skipped issues no mutating call.
C13_OneStoreWritePerRecord ==
    [][\A w \in Writers :
        /\ (pc[w] = "handle" /\ o[w].type = "RECORD" /\ Steps(w)) =>
            /\ pc'[w] \in {"get", "put", "read", "aborted"}
            /\ store' = store
            /\ pc'[w] \in {"get", "put"} => op'[w].key = TargetKey(w)
        /\ (pc[w] = "get" /\ Steps(w)) =>
            /\ pc'[w] \in {"create", "update", "read", "aborted"}
            /\ store' = store
            /\ pc'[w] \in {"create", "update"} => op'[w].key = TargetKey(w)
        /\ (pc[w] \in {"create", "update", "put"} /\ Steps(w)) =>
            /\ pc'[w] \in {"read", "aborted"}
            /\ sequence' \in {sequence, sequence + 1}
            /\ \A k \in DOMAIN store' :
                (k \notin DOMAIN store \/ store'[k] # store[k]) =>
                    /\ k = TargetKey(w)
                    /\ store'[k] = [value |-> op[w].value, revision |-> sequence']
        /\ (Rejected(w) /\ Steps(w)) =>
            (pc'[w] \in {"read", "aborted"} /\ store' = store)]_vars

\* Two records of the same key were handled: the first created the entry,
\* the second updated it, and the bucket has seen these two writes only.
C13_Witness ==
    \E w \in Writers :
        /\ pc[w] = "read"
        /\ prev[w].call = "update"
        /\ prev[w].key = key_prefix \o StreamS \o <<".">> \o Id1.s
        /\ KvHas(store, prev[w].key)
        /\ store[prev[w].key].revision = 2
        /\ sequence = 2

\* The registry entry of stream s of instance w, in the registry reg.
EntryOf(reg, w, s) == <<reg[1][w][s], reg[2][w][s], reg[3][w][s], reg[4][w][s]>>

\* C14: a SCHEMA line of stream s makes the schema, the validator, the key
\* properties and the bookmark properties of s those of the line, leaves the
\* entries of the other streams, the bucket and the held state as they were,
\* and the records of s that follow are compared by freshness exactly when
\* the latest line of s names a bookmark property.
C14_SchemaReplacesEntry ==
    [][\A w \in Writers :
        /\ (pc[w] = "handle" /\ o[w].type = "SCHEMA" /\ Steps(w)) =>
            /\ pc'[w] = "read"
            /\ EntryOf(registry', w, o[w].stream) =
                    <<o[w].schema, o[w].key_properties,
                      o[w].bookmark_properties, o[w].schema>>
            /\ DOMAIN schemas'[w] = DOMAIN schemas[w] \cup {o[w].stream}
            /\ \A s \in DOMAIN schemas[w] \ {o[w].stream} :
                    EntryOf(registry', w, s) = EntryOf(registry, w, s)
            /\ store' = store
            /\ sequence' = sequence
            /\ state'[w] = state[w]
        /\ (pc[w] = "handle" /\ o[w].type = "RECORD" /\ pc'[w] \in {"get", "put"}) =>
            (pc'[w] = "get" <=>
                /\ bookmarks[w][o[w].stream].some
                /\ Len(bookmarks[w][o[w].stream].list) > 0)]_vars

\* With a state held and a second stream registered, a SCHEMA line without
\* bookmark properties is about to replace an entry that has one.
C14_Witness ==
    \E w \in Writers :
        /\ pc[w] = "handle"
        /\ o[w].type = "SCHEMA"
        /\ o[w].stream = StreamS
        /\ DOMAIN schemas[w] = {StreamS, StreamST}
        /\ BookmarkAttr(bookmarks[w], StreamS) # None
        /\ ~o[w].bookmark_properties.some
        /\ o[w].schema # schemas[w][StreamS]
        /\ state[w] # None

\* C15: an ACTIVATE_VERSION line and a line of unknown type raise nothing
\* and leave the registry, the held state, the bucket and the output as they
\* were; the message loop goes on with the next line.
C15_UnsupportedIgnored ==
    [][\A w \in Writers :
        (pc[w] = "handle" /\ o[w].type \in {"ACTIVATE_VERSION", "NONE"} /\ Steps(w)) =>
            /\ pc'[w] = "read"
            /\ raised'[w] = None
            /\ nread'[w] = nread[w]
            /\ schemas'[w] = schemas[w]
            /\ key_properties'[w] = key_properties[w]
            /\ bookmarks'[w] = bookmarks[w]
            /\ validators'[w] = validators[w]
            /\ state'[w] = state[w]
            /\ stdout'[w] = stdout[w]
            /\ store' = store
            /\ sequence' = sequence]_vars

\* An ACTIVATE_VERSION line is about to be handled with a stream registered,
\* a state held and a record written to the bucket.
C15_Witness ==
    \E w \in Writers :
        /\ pc[w] = "handle"
        /\ o[w].type = "ACTIVATE_VERSION"
        /\ StreamS \in DOMAIN schemas[w]
        /\ state[w] # None
        /\ \E k \in DOMAIN store : store[k].value # EmptyBytes

\* The stored value has the field _sdc_deleted_at.
Tombstoned(value) ==
    value # EmptyBytes /\ JsonLoads(value)["_sdc_deleted_at"].t # "absent"

\* C16: a record handled with a freshness property never replaces an entry
\* whose value has the field _sdc_deleted_at: the get on such an entry ends
\* the handling of the record, whatever its freshness string, and no create
\* or update changes such an entry; its value and revision stay.
C16_TombstoneNotOverwritten ==
    [][\A w \in Writers :
        (/\ pc[w] \in {"get", "create", "update"}
         /\ Steps(w)
         /\ KvHas(store, op[w].key)
         /\ Tombstoned(store[op[w].key].value)) =>
            /\ pc[w] = "get" => pc'[w] \in {"read", "aborted"}
            /\ store' = store
            /\ sequence' = sequence]_vars

\* A record with the greater freshness string followed the record that
\* created the entry with _sdc_deleted_at, and was skipped: the entry is at
\* its first revision and holds the deleted record.
C16_Witness ==
    \E w \in Writers :
        /\ prev[w].call = "skip"
        /\ prev[w].earlier.type = "RECORD"
        /\ Has(prev[w].earlier.record, "_sdc_deleted_at")
        /\ StrGreater(FreshnessOf(w, prev[w].msg), FreshnessOf(w, prev[w].earlier))
        /\ HoldsRecord(store, prev[w].key, prev[w].earlier)
        /\ store[prev[w].key].revision = 1

\* Instance w has a store call in flight.
InFlight(w) == pc[w] \in {"get", "create", "update", "put"}

\* C17: an instance reads the next line only when the message before is
\* handled and no store call is in flight; from the reading of a record line
\* to the answer of its last store call the message and the registry stay as
\* they were when it was read, so the record is resolved under the entry of
\* the latest SCHEMA line before it; and every write to the bucket stores the
\* record of the message being handled, so writes follow the input order.
C17_InputOrder ==
    [][\A w \in Writers :
        /\ nread'[w] > nread[w] =>
            /\ pc[w] = "read"
            /\ op[w] = NoOp
            /\ o[w] = NoMsg
            /\ nread'[w] = nread[w] + 1
            /\ store' = store
        /\ (InFlight(w) /\ InFlight(w)') =>
            /\ o'[w] = o[w]
            /\ nread'[w] = nread[w]
            /\ registry' = registry
        /\ InFlight(w)' =>
            /\ o'[w].type = "RECORD"
            /\ op'[w].key = TargetKey(w)'
            /\ \A f \in Fields :
                    Has(o'[w].record, f) => op'[w].record[f] = o'[w].record[f]
            /\ op'[w].value = JsonDumps(op'[w].record)
        /\ (Steps(w) /\ store' # store) =>
            /\ InFlight(w)
            /\ pc'[w] = "read"
            /\ HoldsRecord(store', op[w].key, o[w])
            /\ sequence' = sequence + 1]_vars

\* Two different records of one key were put one after the other: the entry
\* is at its second revision and holds the one that came last in the input.
C17_Witness ==
    \E w \in Writers :
        /\ pc[w] = "read"
        /\ nread[w] = 3
        /\ prev[w].call = "put"
        /\ prev[w].earlier.type = "RECORD"
        /\ prev[w].earlier.record["updated_at"] # prev[w].msg.record["updated_at"]
        /\ HoldsRecord(store, prev[w].key, prev[w].msg)
        /\ store[prev[w].key].revision = 2

\* The run of instance w has ended.
Ended(w) == pc[w] \in {"done", "aborted"}

\* C18: with a finite input and a store that answers, the run ends, by an
\* exception or by the end of the input.  The input ends only between two
\* messages, when every line read has been handled; the state then held is
\* written to standard output in that one step, as one line or none, and the
\* output changes in no other step.  An ended run does nothing more.
C18_RunEnds ==
    /\ <>(\A w \in Writers : pc[w] = "off" \/ Ended(w))
    /\ [][\A w \in Writers :
            /\ (pc'[w] = "done" /\ pc[w] # "done") =>
                /\ pc[w] = "read"
                /\ o[w] = NoMsg
                /\ op[w] = NoOp
                /\ stdout[w] = <<>>
                /\ stdout'[w] = (IF state[w] = None THEN <<>> ELSE <<state[w]>>)
            /\ stdout'[w] # stdout[w] => (pc[w] = "read" /\ pc'[w] = "done")
            /\ Ended(w) => (pc'[w] = pc[w] /\ stdout'[w] = stdout[w])]_vars

\* The input ended after a record was written and a state was read: the
\* state is the one line of the output.
C18_Witness ==
    \E w \in Writers :
        /\ pc[w] = "done"
        /\ stdout[w] = <<"y2">>
        /\ checkpoint[w] = "y2"
        /\ \E k \in DOMAIN store : store[k].value # EmptyBytes

\* The freshness string of a record under the freshness property attr: the
\* text of the field, the empty string for a record without the field.
FreshnessString(record, attr) ==
    IF record[attr].t = "absent" THEN <<>> ELSE record[attr].s

\* The first bookmark property of the stream of w's current message.
FreshnessProperty(w) == bookmarks[w][o[w].stream].list[1]

\* C19: on the freshness path, a record whose freshness string is not
\* strictly greater than the one of the stored record (among them the record
\* without the field, and the record of equal freshness) ends at the get:
\* the entry keeps its value and revision; an entry is replaced only by a
\* record of strictly greater freshness; and the get on a key the bucket
\* does not hold leads to the create, whatever the record's freshness.
C19_StrictFreshness ==
    [][\A w \in Writers :
        /\ (/\ pc[w] = "get"
            /\ Steps(w)
            /\ KvHas(store, op[w].key)
            /\ store[op[w].key].value # EmptyBytes
            /\ ~StrGreater(FreshnessString(op[w].record, FreshnessProperty(w)),
                           FreshnessString(JsonLoads(store[op[w].key].value),
                                           FreshnessProperty(w)))) =>
                /\ pc'[w] \in {"read", "aborted"}
                /\ store' = store
                /\ sequence' = sequence
        /\ (/\ pc[w] = "update"
            /\ KvHas(store, op[w].key)
            /\ store'[op[w].key] # store[op[w].key]) =>
                /\ ~Tombstoned(store[op[w].key].value)
                /\ StrGreater(FreshnessString(op[w].record, FreshnessProperty(w)),
                              FreshnessString(JsonLoads(store[op[w].key].value),
                                              FreshnessProperty(w)))
        /\ (pc[w] = "get" /\ Steps(w) /\ ~KvHas(store, op[w].key)) =>
                pc'[w] \in {"create", "aborted"}]_vars

\* A record without the freshness field created the entry, and the record
\* without the field that followed was skipped: the entry is at its first
\* revision.
C19_Witness ==
    \E w \in Writers :
        /\ prev[w].call = "skip"
        /\ prev[w].earlier.type = "RECORD"
        /\ BookmarkAttr(bookmarks[w], prev[w].msg.stream) = "updated_at"
        /\ ~Has(prev[w].earlier.record, "updated_at")
        /\ ~Has(prev[w].msg.record, "updated_at")
        /\ ~Has(prev[w].earlier.record, "_sdc_deleted_at")
        /\ HoldsRecord(store, prev[w].key, prev[w].earlier)
        /\ store[prev[w].key].revision = 1
        /\ sequence = 1

\* The stream name and the text of the key value of record message m, under
\* the registry of instance w.
EntityOf(w, m) == <<m.stream, m.record[key_properties[w][m.stream][1]].s>>

\* C20: a record is written over the entry of the record written just
\* before it only when the two have the same stream name and the same key
\* value; records of different streams, or of different key values, are
\* stored under different keys.
C20_KeysDoNotCollide ==
    [][\A w \in Writers :
        (/\ InFlight(w)
         /\ Steps(w)
         /\ store' # store
         /\ prev[w].call \in {"create", "put", "update"}
         /\ prev[w].key = op[w].key) =>
            EntityOf(w, prev[w].msg) = EntityOf(w, o[w])]_vars

====
